---- MODULE Spec2Model ----
(***************************************************************************)
(* A model of the portfolio's 3D centrepiece (src/components/Dodecahedron) *)
(* and of the landing page's typewriter.                                   *)
(*                                                                         *)
(* Numbers.  The source computes in IEEE doubles; the model computes in    *)
(* fixed point.  Lengths are in thousandths of a scene unit (RADIUS 2.5 is *)
(* 2500), unit vectors have length NormScale, unit quaternions have length *)
(* QuatScale, and time is in milliseconds.  TLC's integers are 32 bits     *)
(* wide, so every product below is kept under 2^31.                        *)
(***************************************************************************)
EXTENDS Integers, Sequences, FiniteSets, TLC

VARIABLES
    \* ---- geometry extraction (computeFaces, extractSortedEdges) ----
    variant,      \* "current": Dodecahedron.tsx, "legacy": the earlier component
    geo,          \* the triangle mesh handed to computeFaces
    alignQ,       \* the quaternion createAlignedDodecGeo aligned the mesh with
    gpc,          \* position in the extraction: align, group, map, edges, done
    triIdx,       \* computeFaces: t of the grouping loop
    groups,       \* computeFaces: groups, each [verts, normal]
    faces,        \* computeFaces: the ComputedFace list returned so far
    sortedEdges   \* extractSortedEdges: the list it returned

geoVars == <<variant, geo, alignQ, gpc, triIdx, groups, faces, sortedEdges>>

VARIABLES
    \* ---- the Dodecahedron component and its frame callback ----
    mounted,         \* the component is mounted (its refs are set)
    clockLead,       \* how long the canvas clock ran before the mount, in ms
    now,             \* wall-clock time since the mount, in ms
    lastFrame,       \* the time of the last rendered frame (THREE.Clock.oldTime)
    timerPending,    \* the setTimeout of the panel effect has not fired yet
    showPanels,      \* useState(false)
    phase,           \* the branch the last frame took: none, spin, tilt, construct, tumble
    groupRot,        \* groupRef.current.quaternion, as <<kind, parameter>>
    pentVisible,     \* pentGroupRef.current.visible
    pentScale,       \* pentGroupRef.current.scale, in thousandths
    edgeGroupVisible,\* edgeLinesGroupRef.current.visible
    edgeMeshes,      \* edgeCylindersRef.current: per mesh, visible and the
                     \* edgeProgress (in millionths) it was last placed with
    revealCount,     \* the number of edges the last frame drew
    speed,           \* speedRef.current, in 1e-5 rad/s
    tumbleAngle,     \* tumbleAngleRef.current, in 1e-5 rad
    hoveredFace,     \* useState<FaceData | null>(null)
    hoveredFaceRef   \* hoveredFaceRef.current

animVars == <<mounted, clockLead, now, lastFrame, timerPending, showPanels, phase, groupRot,
              pentVisible, pentScale, edgeGroupVisible, edgeMeshes,
              revealCount, speed, tumbleAngle, hoveredFace, hoveredFaceRef>>

VARIABLES
    \* ---- the FacePanel components, one per shown face ----
    isFacingFront,   \* useState(true): the value the last render captured
    pendingFacing,   \* the value setIsFacingFront queued for the next render
    opacity,         \* htmlRef.current.style.opacity, 0 or 1
    pointerEvents,   \* htmlRef.current.style.pointerEvents
    lastDot          \* worldNormal.dot(cameraDir) at the panel's last frame,
                     \* in thousandths

panelVars == <<isFacingFront, pendingFacing, opacity, pointerEvents, lastDot>>

VARIABLES
    \* ---- the landing page's TerminalText ----
    typeMounted,     \* the component is mounted
    typeNow,         \* time since its mount effect ran, in ms
    startTimer,      \* the setTimeout of the effect has not fired yet
    intervalActive,  \* intervalRef.current is a live interval
    nextDue,         \* when the interval's next tick is due
    revealedCount,   \* useState(0)
    pendingUpdaters, \* updaters queued by setRevealedCount, not yet applied
    ticks            \* how many times the interval's callback has run

typeVars == <<typeMounted, typeNow, startTimer, intervalActive, nextDue,
              revealedCount, pendingUpdaters, ticks>>

VARIABLES
    \* ---- ProjectDetailsWindow and the TerminalText inside it ----
    winFace,          \* the face prop of the window's last render
    activeFace,       \* useState<FaceData | null>(null)
    prevFace,         \* useState<FaceData | null>(null)
    winOpacity,       \* the opacity of the window's style, 0 or 1
    winShown,         \* the last render returned the window, not null
    lastFaceReceived, \* the most recent non-null face prop
    htText,           \* TerminalText's text prop, a sequence of characters
    displayedText,    \* useState("")
    htI,              \* the effect's counter i
    htInterval,       \* the effect's interval is live
    htPending         \* updaters queued by setDisplayedText, not yet run

windowVars == <<winFace, activeFace, prevFace, winOpacity, winShown, lastFaceReceived,
                htText, displayedText, htI, htInterval, htPending>>

vars == <<geoVars, animVars, panelVars, typeVars, windowVars>>

----------------------------------------------------------------------------
(* Fixed-point arithmetic *)

Unit == 10 * 100            \* one scene unit, in model length units
NormScale == 4 * 10000      \* the length of a normalised vector
QuatScale == 10 * 1000      \* the length of a normalised quaternion

Abs(x) == IF x < 0 THEN -x ELSE x
Max(a, b) == IF a >= b THEN a ELSE b
Min(a, b) == IF a <= b THEN a ELSE b

\* Division rounded to the nearest integer (b > 0).
RoundDiv(a, b) == (a + b \div 2) \div b

RECURSIVE SqrtSearch(_, _, _)
SqrtSearch(n, lo, hi) ==
    IF lo >= hi THEN lo
    ELSE LET mid == (lo + hi + 1) \div 2
         IN  IF mid * mid <= n THEN SqrtSearch(n, mid, hi)
                               ELSE SqrtSearch(n, lo, mid - 1)

\* Math.sqrt, rounded down.
IntSqrt(n) == SqrtSearch(n, 0, 46340)

----------------------------------------------------------------------------
(* THREE.Vector3, THREE.Triangle, THREE.Quaternion *)

Vec(x, y, z) == <<x, y, z>>
VSub(a, b) == <<a[1] - b[1], a[2] - b[2], a[3] - b[3]>>
VAdd(a, b) == <<a[1] + b[1], a[2] + b[2], a[3] + b[3]>>
VDot(a, b) == a[1] * b[1] + a[2] * b[2] + a[3] * b[3]
VCross(a, b) == <<a[2] * b[3] - a[3] * b[2],
                  a[3] * b[1] - a[1] * b[3],
                  a[1] * b[2] - a[2] * b[1]>>
VDivRound(a, k) == <<RoundDiv(a[1], k), RoundDiv(a[2], k), RoundDiv(a[3], k)>>
VDistSq(a, b) == VDot(VSub(a, b), VSub(a, b))

\* Vector3.normalize: a vector of components below 26000 brought to length
\* NormScale; the zero vector stays zero.
VNormalize(v) ==
    LET len == IntSqrt(VDot(v, v))
    IN  IF len = 0 THEN <<0, 0, 0>>
        ELSE <<RoundDiv(v[1] * NormScale, len),
               RoundDiv(v[2] * NormScale, len),
               RoundDiv(v[3] * NormScale, len)>>

\* Triangle.getNormal: (c - b) x (a - b), normalised.  The cross product of
\* two edges is in square length units; it is reduced before it is squared.
getNormal(a, b, c) ==
    VNormalize(VDivRound(VCross(VSub(c, b), VSub(a, b)), 200))

\* Quaternion.setFromUnitVectors(vFrom, vTo) for unit vectors that are not
\* opposite: (vFrom x vTo, vFrom . vTo + 1), normalised.
setFromUnitVectors(vFrom, vTo) ==
    LET cr == VDivRound(VCross(vFrom, vTo), NormScale)
        r  == RoundDiv(VDot(vFrom, vTo), NormScale) + NormScale
        x  == RoundDiv(cr[1], 4)
        y  == RoundDiv(cr[2], 4)
        z  == RoundDiv(cr[3], 4)
        w  == RoundDiv(r, 4)
        len == IntSqrt(x * x + y * y + z * z + w * w)
    IN  <<RoundDiv(x * QuatScale, len), RoundDiv(y * QuatScale, len),
          RoundDiv(z * QuatScale, len), RoundDiv(w * QuatScale, len)>>

IdentityQuat == <<0, 0, 0, QuatScale>>

\* Vector3.applyQuaternion: v + w t + q x t with t = 2 (q x v), for a vector
\* of components up to 10000.
applyQuaternion(v, q) ==
    LET qv == <<q[1], q[2], q[3]>>
        t  == VDivRound(VCross(qv, v), QuatScale \div 2)
        wt == <<q[4] * t[1], q[4] * t[2], q[4] * t[3]>>
    IN  VAdd(v, VDivRound(VAdd(wt, VCross(qv, t)), QuatScale))

----------------------------------------------------------------------------
(* The mesh of new THREE.DodecahedronGeometry(RADIUS, 0) *)

RADIUS == 2500

\* phi = (1 + sqrt 5) / 2, in thousandths.
phi == (Unit + IntSqrt(5 * Unit * Unit)) \div 2

\* The 20 vertices of the polyhedron before they are projected on the sphere:
\* (+-1, +-1, +-1), (0, +-1/phi, +-phi), (+-1/phi, +-phi, 0), (+-phi, 0, +-1/phi).
PolyVertices ==
    LET o == Unit
        t == phi
        r == (Unit * Unit) \div phi
    IN  << <<-o, -o, -o>>, <<-o, -o, o>>, <<-o, o, -o>>, <<-o, o, o>>,
           <<o, -o, -o>>,  <<o, -o, o>>,  <<o, o, -o>>,  <<o, o, o>>,
           <<0, -r, -t>>,  <<0, -r, t>>,  <<0, r, -t>>,  <<0, r, t>>,
           <<-r, -t, 0>>,  <<-r, t, 0>>,  <<r, -t, 0>>,  <<r, t, 0>>,
           <<-t, 0, -r>>,  <<t, 0, -r>>,  <<-t, 0, r>>,  <<t, 0, r>> >>

\* The 36 triangles, three per pentagon, as indices (from 0) into the vertices.
PolyIndices ==
    << 3, 11, 7,   3, 7, 15,   3, 15, 13,
       7, 19, 17,  7, 17, 6,   7, 6, 15,
       17, 4, 8,   17, 8, 10,  17, 10, 6,
       8, 0, 16,   8, 16, 2,   8, 2, 10,
       0, 12, 1,   0, 1, 18,   0, 18, 16,
       6, 10, 2,   6, 2, 13,   6, 13, 15,
       2, 16, 18,  2, 18, 3,   2, 3, 13,
       18, 1, 9,   18, 9, 11,  18, 11, 3,
       4, 14, 12,  4, 12, 0,   4, 0, 8,
       11, 9, 5,   11, 5, 19,  11, 19, 7,
       19, 5, 14,  19, 14, 4,  19, 4, 17,
       1, 12, 14,  1, 14, 5,   1, 5, 9 >>

\* A vertex projected on the sphere of the given radius.
ApplyRadius(v, radius) ==
    LET len == IntSqrt(VDot(v, v))
    IN  <<RoundDiv(v[1] * radius, len), RoundDiv(v[2] * radius, len),
          RoundDiv(v[3] * radius, len)>>

DodecVertices == [i \in 1..Len(PolyVertices) |-> ApplyRadius(PolyVertices[i], RADIUS)]

\* The geometry as the library builds it: one position per triangle corner and
\* no index; and the same mesh with shared vertices and an index.
DodecahedronGeometry(indexed) ==
    IF indexed
    THEN [position |-> DodecVertices, index |-> PolyIndices, indexed |-> TRUE]
    ELSE [position |-> [k \in 1..Len(PolyIndices) |-> DodecVertices[PolyIndices[k] + 1]],
          index |-> <<>>, indexed |-> FALSE]

----------------------------------------------------------------------------
(* getTriVert and createAlignedDodecGeo *)

getTriVert(g, triIndex, vertOffset) ==
    LET vi == IF g.indexed THEN g.index[triIndex + vertOffset + 1]
                           ELSE triIndex + vertOffset
    IN  g.position[vi + 1]

triCount(g) == IF g.indexed THEN Len(g.index) \div 3 ELSE Len(g.position) \div 3

TriNormal(g, t) ==
    getNormal(getTriVert(g, t * 3, 0), getTriVert(g, t * 3, 1), getTriVert(g, t * 3, 2))

targetDir == <<0, 0, NormScale>>

\* The loop that keeps the normal with the strictly largest dot product with
\* targetDir; best is [n, d, any], any = FALSE standing for bestDot = -Infinity.
RECURSIVE BestNormalFrom(_, _, _)
BestNormalFrom(g, t, best) ==
    IF t >= triCount(g) THEN best.n
    ELSE LET n == TriNormal(g, t)
             d == VDot(n, targetDir) \div NormScale
         IN  IF ~best.any \/ d > best.d
             THEN BestNormalFrom(g, t + 1, [n |-> n, d |-> d, any |-> TRUE])
             ELSE BestNormalFrom(g, t + 1, best)

RECURSIVE BottomVertsFrom(_, _)
BottomVertsFrom(g, t) ==
    IF t >= triCount(g) THEN <<>>
    ELSE LET n == TriNormal(g, t)
             rest == BottomVertsFrom(g, t + 1)
         IN  IF VDot(n, targetDir) > 99 * (NormScale \div 100) * NormScale
             THEN <<getTriVert(g, t * 3, 0), getTriVert(g, t * 3, 1),
                    getTriVert(g, t * 3, 2)>> \o rest
             ELSE rest

RECURSIVE VSum(_)
VSum(vs) == IF vs = <<>> THEN <<0, 0, 0>> ELSE VAdd(Head(vs), VSum(Tail(vs)))

createAlignedDodecGeo(g0) ==
    LET bestNormal == BestNormalFrom(g0, 0, [n |-> <<0, 0, 0>>, d |-> 0, any |-> FALSE])
        q == setFromUnitVectors(bestNormal, targetDir)
        g == [g0 EXCEPT !.position =
                  [k \in 1..Len(g0.position) |-> applyQuaternion(g0.position[k], q)]]
        bottomVerts == BottomVertsFrom(g, 0)
        bottomCenter == IF Len(bottomVerts) > 0
                        THEN VDivRound(VSum(bottomVerts), Len(bottomVerts))
                        ELSE <<0, 0, 0>>
    IN  [geo |-> g, alignQ |-> q, bottomCenter |-> bottomCenter]

----------------------------------------------------------------------------
(* FACE_DEFINITIONS: direction, label, slug and accent of each entry, and the
   accent and slug its renderContent hands to FaceCard *)

FaceDef(d, label, slug, accent, cardAccent, cardSlug) ==
    [direction |-> d, label |-> label, slug |-> slug, accent |-> accent,
     cardAccent |-> cardAccent, cardSlug |-> cardSlug]

FACE_DEFINITIONS ==
    << FaceDef(<<0, Unit, phi>>, "Portrait", "portrait", "rgba(6,182,212,0.6)",
               "rgba(6,182,212,0.6)", "portrait"),
       FaceDef(<<0, -Unit, -phi>>, "Footer", "footer", "rgba(120,120,120,0.4)",
               "rgba(120,120,120,0.4)", "footer"),
       FaceDef(<<0, Unit, -phi>>, "HardHaQ", "hardhaq", "rgba(245,158,11,0.5)",
               "rgba(245,158,11,0.5)", "hardhaq"),
       FaceDef(<<0, -Unit, phi>>, "HackML", "hackml", "rgba(139,92,246,0.5)",
               "rgba(139,92,246,0.5)", "hackml"),
       FaceDef(<<Unit, phi, 0>>, "Macropad", "macropad", "rgba(16,185,129,0.5)",
               "rgba(16,185,129,0.5)", "macropad"),
       FaceDef(<<-Unit, phi, 0>>, "Leadership", "leadership", "rgba(244,63,94,0.5)",
               "rgba(244,63,94,0.5)", "leadership"),
       FaceDef(<<Unit, -phi, 0>>, "HUDson", "hudson", "rgba(59,130,246,0.5)",
               "rgba(59,130,246,0.5)", "hudson"),
       FaceDef(<<-Unit, -phi, 0>>, "Air Mouse", "air-mouse", "rgba(249,115,22,0.5)",
               "rgba(249,115,22,0.5)", "air-mouse"),
       FaceDef(<<phi, 0, Unit>>, "Solder Bot", "solder-bot", "rgba(20,184,166,0.5)",
               "rgba(20,184,166,0.5)", "solder-bot"),
       FaceDef(<<-phi, 0, Unit>>, "Research", "research", "rgba(99,102,241,0.5)",
               "rgba(99,102,241,0.5)", "research"),
       FaceDef(<<phi, 0, -Unit>>, "Quant", "quant", "rgba(234,179,8,0.5)",
               "rgba(234,179,8,0.5)", "quant"),
       FaceDef(<<-phi, 0, -Unit>>, "Awards", "awards", "rgba(236,72,153,0.5)",
               "rgba(236,72,153,0.5)", "awards") >>

\* A variant of FaceCard whose link leaves out the slug.
FaceCardNoSlug(accent, slug) ==
    [href |-> <<"projects">>, accent |-> accent]

\* FaceCard: the link target, as the segments of its path, and the accent of
\* the card's glow.
FaceCard(accent, slug) ==
    [href |-> <<"projects", slug>>, accent |-> accent]

\* renderContent of the k-th entry.
renderContent(k) ==
    FaceCard(FACE_DEFINITIONS[k].cardAccent, FACE_DEFINITIONS[k].cardSlug)

----------------------------------------------------------------------------
(* computeFaces *)

\* normalA . normalB > 0.99, for two normalised vectors.
SameNormal(na, nb) == VDot(na, nb) > 99 * (NormScale \div 100) * NormScale

\* One iteration of the grouping loop: the triangle joins the first group whose
\* normal is similar, or starts a group.
RECURSIVE AddToGroups(_, _, _, _)
AddToGroups(gs, k, tri, normal) ==
    IF k > Len(gs) THEN Append(gs, [verts |-> tri, normal |-> normal])
    ELSE IF SameNormal(gs[k].normal, normal)
         THEN [gs EXCEPT ![k].verts = @ \o tri]
         ELSE AddToGroups(gs, k + 1, tri, normal)

GroupTriangle(gs, g, t) ==
    LET a == getTriVert(g, t * 3, 0)
        b == getTriVert(g, t * 3, 1)
        c == getTriVert(g, t * 3, 2)
    IN  AddToGroups(gs, 1, <<a, b, c>>, getNormal(a, b, c))

\* unique.some(u => u.distanceTo(v) < 0.001): 0.001 is one model length unit.
NearSome(unique, v) == \E i \in 1..Len(unique) : VDistSq(unique[i], v) < 1

RECURSIVE UniqueFrom(_, _, _)
UniqueFrom(verts, k, unique) ==
    IF k > Len(verts) THEN unique
    ELSE UniqueFrom(verts, k + 1,
                    IF NearSome(unique, verts[k]) THEN unique
                    ELSE Append(unique, verts[k]))

UniqueVerts(verts) == UniqueFrom(verts, 1, <<>>)

Centroid(vs) == VDivRound(VSum(vs), Len(vs))

\* The loop over FACE_DEFINITIONS that keeps the entry with the strictly
\* largest dot product; the result is the entry's position in the list.
RECURSIVE BestDefFrom(_, _, _, _, _)
BestDefFrom(n, q, k, best, bestDot) ==
    IF k > Len(FACE_DEFINITIONS) THEN best
    ELSE LET dir0 == VDivRound(VNormalize(FACE_DEFINITIONS[k].direction), 4)
             dir  == IF q = <<>> THEN dir0 ELSE applyQuaternion(dir0, q)
             d    == VDot(dir, n)
         IN  IF bestDot = <<>> \/ d > bestDot[1]
             THEN BestDefFrom(n, q, k + 1, k, <<d>>)
             ELSE BestDefFrom(n, q, k + 1, best, bestDot)

\* A variant of the match that leaves the directions unrotated.
unalignedDef(n, q) == BestDefFrom(n, <<>>, 1, 1, <<>>)

\* The match of a face normal to FACE_DEFINITIONS; q = <<>> is "no alignQ".
BestDef(n, q) == BestDefFrom(n, q, 1, 1, <<>>)

\* The vertex whose direction from the centre is closest to visualUp.
RECURSIVE BestVertexFrom(_, _, _, _, _, _)
BestVertexFrom(unique, center, visualUp, k, best, maxDot) ==
    IF k > Len(unique) THEN best
    ELSE LET dir == VNormalize(VSub(unique[k], center))
             d   == VDot(VDivRound(dir, 4), VDivRound(visualUp, 4))
         IN  IF maxDot = <<>> \/ d > maxDot[1]
             THEN BestVertexFrom(unique, center, visualUp, k + 1, unique[k], <<d>>)
             ELSE BestVertexFrom(unique, center, visualUp, k + 1, best, maxDot)

\* The callback of groups.map in Dodecahedron.tsx.
MapGroup(g, q) ==
    LET unique == UniqueVerts(g.verts)
        center == Centroid(unique)
        n      == VNormalize(VDivRound(g.normal, 4))
        yUp    == <<0, NormScale, 0>>
        worldUp == IF Abs(VDot(n, yUp)) > 99 * (NormScale \div 100) * NormScale
                   THEN <<0, 0, NormScale>> ELSE yUp
        along  == VDot(worldUp, n) \div NormScale
        visualUp == VNormalize(VDivRound(
                        VSub(worldUp, VDivRound(<<n[1] * along, n[2] * along, n[3] * along>>,
                                                NormScale)), 4))
        bestVertex == BestVertexFrom(unique, center, visualUp, 1, unique[1], <<>>)
    IN  [position |-> center,
         zAxis    |-> n,
         up       |-> VNormalize(VSub(bestVertex, center)),
         data     |-> BestDef(n, q)]

\* The callback of groups.map in the earlier component: the centroid of all
\* nine triangle corners, no alignQ, the first unique vertex as "up", and the
\* panel 0.03 above the surface.
MapGroupLegacy(g) ==
    LET center == Centroid(g.verts)
        n      == VNormalize(VDivRound(g.normal, 4))
        unique == UniqueVerts(g.verts)
    IN  [position |-> VAdd(center, VDivRound(<<n[1] * 30, n[2] * 30, n[3] * 30>>, NormScale)),
         zAxis    |-> n,
         up       |-> VNormalize(VSub(unique[1], center)),
         data     |-> BestDef(n, <<>>)]

----------------------------------------------------------------------------
(* extractSortedEdges, with new THREE.EdgesGeometry(geo, 1) *)

\* cos(1 degree) = 0.99985, for the dot product of two normalised vectors.
thresholdDot == ((99985 * 4) \div 10) * NormScale

\* The position of the live-or-dead entry of edgeData under the key (h0, h1),
\* 0 when the key is absent.  A vertex hashes to its rounded coordinates.
FindEdge(edgeData, h0, h1) ==
    LET hits == {k \in 1..Len(edgeData) : edgeData[k].h0 = h0 /\ edgeData[k].h1 = h1}
    IN  IF hits = {} THEN 0 ELSE CHOOSE k \in hits : \A m \in hits : k <= m

\* One edge (j, j+1) of a triangle; st is [edgeData, vertices].
EdgeOfTriangle(st, tri, normal, j) ==
    LET v0 == tri[j + 1]
        v1 == tri[((j + 1) % 3) + 1]
        rev == FindEdge(st.edgeData, v1, v0)
        fwd == FindEdge(st.edgeData, v0, v1)
    IN  IF rev > 0 /\ st.edgeData[rev].live
        THEN [edgeData |-> [st.edgeData EXCEPT ![rev].live = FALSE],
              vertices |-> IF VDot(normal, st.edgeData[rev].normal) <= thresholdDot
                           THEN st.vertices \o <<v0, v1>>
                           ELSE st.vertices]
        ELSE IF fwd = 0
             THEN [edgeData |-> Append(st.edgeData,
                                   [h0 |-> v0, h1 |-> v1, normal |-> normal, live |-> TRUE]),
                   vertices |-> st.vertices]
             ELSE st

\* The three edges of triangle t, or nothing for a degenerate triangle.
TriangleEdges(st, g, t) ==
    LET a == getTriVert(g, t * 3, 0)
        b == getTriVert(g, t * 3, 1)
        c == getTriVert(g, t * 3, 2)
        tri == <<a, b, c>>
        normal == getNormal(a, b, c)
        st1 == EdgeOfTriangle(st, tri, normal, 0)
        st2 == EdgeOfTriangle(st1, tri, normal, 1)
    IN  IF a = b \/ b = c \/ c = a THEN st
        ELSE EdgeOfTriangle(st2, tri, normal, 2)

\* The loop over the triangles; each step's state is computed before the next.
RECURSIVE EdgesFrom(_, _, _)
EdgesFrom(g, t, st) ==
    IF t >= triCount(g) THEN st
    ELSE LET next == TriangleEdges(st, g, t)
         IN  IF Len(next.edgeData) >= 0 /\ Len(next.vertices) >= 0
             THEN EdgesFrom(g, t + 1, next)
             ELSE st

\* "for (const key in edgeData)": the entries never matched, in insertion order.
UnmatchedEdges(edgeData) ==
    LET left == SelectSeq(edgeData, LAMBDA e : e.live)
    IN  [i \in 1..(2 * Len(left)) |->
            IF i % 2 = 1 THEN left[(i + 1) \div 2].h0 ELSE left[i \div 2].h1]

\* The position attribute of the edges geometry: two entries per segment.
EdgesGeometry(g) ==
    LET st == EdgesFrom(g, 0, [edgeData |-> <<>>, vertices |-> <<>>])
    IN  st.vertices \o UnmatchedEdges(st.edgeData)

\* The loop "for (i = 0; i < pos.count; i += 2)".
Segments(pos) ==
    [k \in 1..(Len(pos) \div 2) |->
        LET a == pos[2 * k - 1]
            b == pos[2 * k]
        IN  [a |-> a, b |-> b, sortY |-> -Max(a[3], b[3])]]

\* A variant that returns the segments in the order EdgesGeometry emitted them.
emissionOrder(segs) == segs

\* segs.sort((a, b) => a.sortY - b.sortY): a stable sort, smallest sortY first.
RECURSIVE InsertSeg(_, _)
InsertSeg(sorted, seg) ==
    IF sorted = <<>> THEN <<seg>>
    ELSE IF sorted[Len(sorted)].sortY - seg.sortY <= 0 THEN Append(sorted, seg)
         ELSE Append(InsertSeg(SubSeq(sorted, 1, Len(sorted) - 1), seg), sorted[Len(sorted)])

RECURSIVE SortSegs(_, _, _)
SortSegs(segs, k, sorted) ==
    IF k > Len(segs) THEN sorted ELSE SortSegs(segs, k + 1, InsertSeg(sorted, segs[k]))

sortSegs(segs) == SortSegs(segs, 1, <<>>)

extractSortedEdges(g) == sortSegs(Segments(EdgesGeometry(g)))

\* The whole grouping loop; each step's groups are computed before the next.
RECURSIVE GroupsFrom(_, _, _)
GroupsFrom(g, t, gs) ==
    IF t >= triCount(g) THEN gs
    ELSE LET next == GroupTriangle(gs, g, t)
         IN  IF Len(next) >= 0 THEN GroupsFrom(g, t + 1, next) ELSE gs

computeFaces(g, q) ==
    LET gs == GroupsFrom(g, 0, <<>>)
    IN  [k \in 1..Len(gs) |-> MapGroup(gs[k], q)]

\* What the component's useMemo calls hold once it has rendered.
AlignedGeo == createAlignedDodecGeo(DodecahedronGeometry(FALSE))
MemoGroups == GroupsFrom(AlignedGeo.geo, 0, <<>>)
MemoFaces == computeFaces(AlignedGeo.geo, AlignedGeo.alignQ)
MemoSortedEdges == extractSortedEdges(AlignedGeo.geo)

----------------------------------------------------------------------------
(* The geometry extraction, step by step *)

GeoInit ==
    /\ variant \in {"current", "legacy"}
    /\ geo \in {DodecahedronGeometry(FALSE), DodecahedronGeometry(TRUE)}
    /\ alignQ = <<>>
    /\ gpc = IF variant = "current" THEN "align" ELSE "compute"
    /\ triIdx = 0
    /\ groups = <<>>
    /\ faces = <<>>
    /\ sortedEdges = <<>>

\* useMemo(() => createAlignedDodecGeo()): Dodecahedron.tsx aligns the mesh
\* before it extracts faces and edges from it.
Align ==
    /\ gpc = "align"
    /\ LET res == createAlignedDodecGeo(geo)
       IN  /\ geo' = res.geo
           /\ alignQ' = res.alignQ
    /\ gpc' = "compute"
    /\ UNCHANGED <<variant, triIdx, groups, faces, sortedEdges, animVars, panelVars, typeVars,
                   windowVars>>

\* computeFaces is entered.  The earlier component gives up on a mesh
\* without an index: "if (!index) return [];".
ComputeFacesEnter ==
    /\ gpc = "compute"
    /\ gpc' = IF variant = "legacy" /\ ~geo.indexed THEN "returned" ELSE "group"
    /\ UNCHANGED <<variant, geo, alignQ, triIdx, groups, faces, sortedEdges, animVars, panelVars, typeVars,
                   windowVars>>

\* One iteration of the loop over the triangles.
GroupStep ==
    /\ gpc = "group"
    /\ triIdx < triCount(geo)
    /\ groups' = GroupTriangle(groups, geo, triIdx)
    /\ triIdx' = triIdx + 1
    /\ UNCHANGED <<variant, geo, alignQ, gpc, faces, sortedEdges, animVars, panelVars, typeVars,
                   windowVars>>

GroupDone ==
    /\ gpc = "group"
    /\ triIdx >= triCount(geo)
    /\ gpc' = "map"
    /\ UNCHANGED <<variant, geo, alignQ, triIdx, groups, faces, sortedEdges, animVars, panelVars, typeVars,
                   windowVars>>

\* One call of the callback of groups.map.
MapStep ==
    /\ gpc = "map"
    /\ Len(faces) < Len(groups)
    /\ faces' = Append(faces,
                  IF variant = "current" THEN MapGroup(groups[Len(faces) + 1], alignQ)
                  ELSE MapGroupLegacy(groups[Len(faces) + 1]))
    /\ UNCHANGED <<variant, geo, alignQ, gpc, triIdx, groups, sortedEdges, animVars, panelVars, typeVars,
                   windowVars>>

ComputeFacesReturn ==
    /\ gpc = "map"
    /\ Len(faces) >= Len(groups)
    /\ gpc' = "returned"
    /\ UNCHANGED <<variant, geo, alignQ, triIdx, groups, faces, sortedEdges, animVars, panelVars, typeVars,
                   windowVars>>

\* useMemo(() => extractSortedEdges(alignedGeo)), in Dodecahedron.tsx only.
ExtractEdges ==
    /\ gpc = "returned"
    /\ variant = "current"
    /\ sortedEdges' = extractSortedEdges(geo)
    /\ gpc' = "done"
    /\ UNCHANGED <<variant, geo, alignQ, triIdx, groups, faces, animVars, panelVars, typeVars,
                   windowVars>>

GeoNext ==
    \/ Align
    \/ ComputeFacesEnter
    \/ GroupStep
    \/ GroupDone
    \/ MapStep
    \/ ComputeFacesReturn
    \/ ExtractEdges

----------------------------------------------------------------------------
(* The Dodecahedron component: timeline constants *)

SPIN_PHASE == 2                           \* seconds
TILT_END == 4
EDGE_DRAW_END == 7
\* A variant that shows the panels when the tilt ends.
tiltEndDelayMs == TILT_END * 1000
PANEL_DELAY_MS == EDGE_DRAW_END * 1000
Ms(sec) == sec * 1000

\* (Math.PI * 2) / 30, in 1e-5 rad/s
ROTATE_SPEED == RoundDiv(2 * 314159, 30)
\* ROTATE_SPEED * 0.15
HoveredSpeed == RoundDiv(ROTATE_SPEED * 15, 100)

\* The frame intervals and timer latencies explored, in ms.  2453 lands a
\* frame where the last edge has only just begun to grow; 500 and more are
\* the frames of a throttled or resumed tab.
Deltas == {100, 500, 2453, 3500}
TimerLate == {0, 100}
ClockLeads == {0, 100}
MaxNow == 7500
NumPanels == 2

NoFace == 0
ProgressOne == 1000 * 1000                \* edgeProgress 1, in millionths

\* p * p * (3 - 2 * p), p and the result in thousandths
smoothstep(p) == (((p * p) \div 1000) * (3000 - 2 * p)) \div 1000

\* ease = 1 - Math.pow(1 - p, 2) with p = (elapsed - TILT_END) /
\* (EDGE_DRAW_END - TILT_END), as the exact fraction EaseNum / EaseDen.
EaseDen == Ms(EDGE_DRAW_END - TILT_END) * Ms(EDGE_DRAW_END - TILT_END)
EaseNum(elapsed) ==
    LET u == Ms(EDGE_DRAW_END) - elapsed
    IN  EaseDen - u * u

\* A variant that rounds the reveal count down.
floorRevealCount(elapsed, total) == (total * EaseNum(elapsed)) \div EaseDen

\* Math.ceil(ease * total)
constructRevealCount(elapsed, total) ==
    (total * EaseNum(elapsed) + EaseDen - 1) \div EaseDen

\* A variant that counts the progress of edge i from i + 1 and clamps it to
\* [0, 1].
progressFromNextIndex(elapsed, total, i) ==
    Max(0, Min(ProgressOne,
               (total * EaseNum(elapsed) - (i + 1) * EaseDen)
                   \div ((3 * EaseDen) \div ProgressOne)))

\* Math.min(1, (ease * total - i) / 3) for the 0-based edge i, in millionths
edgeProgress(elapsed, total, i) ==
    Min(ProgressOne,
        (total * EaseNum(elapsed) - i * EaseDen) \div ((3 * EaseDen) \div ProgressOne))

SegLen(seg) == IntSqrt(VDistSq(seg.a, seg.b))

\* The distance between v1 and v2, the ends of seg pulled towards bottomCenter
\* by ep = edgeProgress^2, in millionths of a scene unit.
GrownDist(seg, prog) ==
    IF prog < 30000
    THEN (SegLen(seg) * ((prog * prog) \div 1000)) \div ProgressOne
    ELSE (SegLen(seg) * ((prog \div 1000) * (prog \div 1000))) \div 1000

\* updateCylinder(mesh, p1, p2): a mesh shorter than 0.0001 is hidden and
\* left where it was, any other is shown and placed.
updateCylinder(mesh, dist, prog) ==
    IF dist < (Unit * 1000) \div 10000
    THEN [mesh EXCEPT !.visible = FALSE]
    ELSE [visible |-> TRUE, prog |-> prog]

\* THREE.MathUtils.lerp(x, y, t) = (1 - t) * x + t * y, t in thousandths
lerp(x, y, t) == RoundDiv((1000 - t) * x + t * y, 1000)

targetSpeed(ref) == IF ref # NoFace THEN HoveredSpeed ELSE ROTATE_SPEED

\* A variant whose comparisons include the phase boundaries.
framePhaseInclusive(elapsed) ==
    IF elapsed <= Ms(SPIN_PHASE) THEN "spin"
    ELSE IF elapsed <= Ms(TILT_END) THEN "tilt"
    ELSE IF elapsed <= Ms(EDGE_DRAW_END) THEN "construct"
    ELSE "tumble"

\* A variant that starts the tumble while the edges are still being drawn.
framePhaseEarlyTumble(elapsed) ==
    IF elapsed < Ms(SPIN_PHASE) THEN "spin"
    ELSE IF elapsed < Ms(TILT_END) THEN "tilt"
    ELSE IF elapsed < Ms(EDGE_DRAW_END - 1) THEN "construct"
    ELSE "tumble"

framePhase(elapsed) ==
    IF elapsed < Ms(SPIN_PHASE) THEN "spin"
    ELSE IF elapsed < Ms(TILT_END) THEN "tilt"
    ELSE IF elapsed < Ms(EDGE_DRAW_END) THEN "construct"
    ELSE "tumble"

----------------------------------------------------------------------------
(* The Dodecahedron component: mount, frame callback, panel timer, hover *)

\* The component before it has rendered anything.
AnimIdle ==
    /\ mounted = FALSE
    /\ clockLead = 0
    /\ now = 0
    /\ lastFrame = 0
    /\ timerPending = FALSE
    /\ showPanels = FALSE
    /\ phase = "none"
    /\ groupRot = <<"identity", 0>>
    /\ pentVisible = TRUE
    /\ pentScale = 1000
    /\ edgeGroupVisible = TRUE
    /\ edgeMeshes = <<>>
    /\ revealCount = 0
    /\ speed = ROTATE_SPEED
    /\ tumbleAngle = 0
    /\ hoveredFace = NoFace
    /\ hoveredFaceRef = NoFace

\* The component after its first render and its mount effect: one mesh per
\* sorted edge (a new THREE.Mesh is visible), the panel timer armed.
AnimInit ==
    /\ mounted = TRUE
    /\ clockLead \in ClockLeads
    /\ now = 0
    /\ lastFrame = 0
    /\ timerPending = TRUE
    /\ showPanels = FALSE
    /\ phase = "none"
    /\ groupRot = <<"identity", 0>>
    /\ pentVisible = TRUE
    /\ pentScale = 1000
    /\ edgeGroupVisible = TRUE
    /\ edgeMeshes = [i \in 1..Len(MemoSortedEdges) |-> [visible |-> TRUE, prog |-> -1]]
    /\ revealCount = 0
    /\ speed = ROTATE_SPEED
    /\ tumbleAngle = 0
    /\ hoveredFace = NoFace
    /\ hoveredFaceRef = NoFace

GeoMemo ==
    /\ variant = "current"
    /\ geo = AlignedGeo.geo
    /\ alignQ = AlignedGeo.alignQ
    /\ gpc = "done"
    /\ triIdx = triCount(AlignedGeo.geo)
    /\ groups = MemoGroups
    /\ faces = MemoFaces
    /\ sortedEdges = MemoSortedEdges

\* A variant of the reveal loop without its else branch: edges past
\* revealCount are left as they were.
ConstructMeshesNoHide(elapsed) ==
    LET total == Len(sortedEdges)
        rc == constructRevealCount(elapsed, total)
    IN  [k \in 1..total |->
            IF k - 1 < rc
            THEN LET prog == edgeProgress(elapsed, total, k - 1)
                 IN  updateCylinder(edgeMeshes[k], GrownDist(sortedEdges[k], prog), prog)
            ELSE edgeMeshes[k]]

\* The edge meshes after a frame of the construct phase.
ConstructMeshes(elapsed) ==
    LET total == Len(sortedEdges)
        rc == constructRevealCount(elapsed, total)
    IN  [k \in 1..total |->
            IF k - 1 < rc
            THEN LET prog == edgeProgress(elapsed, total, k - 1)
                 IN  updateCylinder(edgeMeshes[k], GrownDist(sortedEdges[k], prog), prog)
            ELSE [edgeMeshes[k] EXCEPT !.visible = FALSE]]

\* A variant of the tumble branch that places only the edges the construct
\* phase had revealed.
FinalMeshesRevealedOnly ==
    [k \in 1..Len(sortedEdges) |->
        IF k - 1 < revealCount
        THEN updateCylinder(edgeMeshes[k], SegLen(sortedEdges[k]) * 1000, ProgressOne)
        ELSE edgeMeshes[k]]

\* The edge meshes after a frame of the tumble phase.
FinalMeshes ==
    [k \in 1..Len(sortedEdges) |->
        updateCylinder(edgeMeshes[k], SegLen(sortedEdges[k]) * 1000, ProgressOne)]

\* useFrame(({ clock }, delta) => ...), d ms after the previous event.
Frame(d) ==
    /\ mounted
    /\ now + d <= MaxNow
    /\ now' = now + d
    /\ lastFrame' = now + d
    /\ LET elapsed == now + d + clockLead
           delta == now + d - lastFrame
           ph == framePhase(elapsed)
       IN  /\ phase' = ph
           /\ IF ph = "spin" THEN
                 LET p == RoundDiv(elapsed * 1000, Ms(SPIN_PHASE))
                 IN  /\ groupRot' = <<"spin", smoothstep(p)>>
                     /\ pentVisible' = TRUE
                     /\ pentScale' = Max(10, p)
                     /\ edgeGroupVisible' = FALSE
                     /\ revealCount' = 0
                     /\ UNCHANGED <<edgeMeshes, speed, tumbleAngle>>
              ELSE IF ph = "tilt" THEN
                 LET p == RoundDiv((elapsed - Ms(SPIN_PHASE)) * 1000, Ms(TILT_END - SPIN_PHASE))
                 IN  /\ groupRot' = <<"tilt", smoothstep(p)>>
                     /\ pentVisible' = TRUE
                     /\ pentScale' = 1000
                     /\ edgeGroupVisible' = FALSE
                     /\ revealCount' = 0
                     /\ UNCHANGED <<edgeMeshes, speed, tumbleAngle>>
              ELSE IF ph = "construct" THEN
                 /\ groupRot' = <<"tilt", 1000>>
                 /\ pentVisible' = (5 * EaseNum(elapsed) < EaseDen)
                 /\ pentScale' = 1000
                 /\ edgeGroupVisible' = TRUE
                 /\ revealCount' = constructRevealCount(elapsed, Len(sortedEdges))
                 /\ edgeMeshes' = ConstructMeshes(elapsed)
                 /\ UNCHANGED <<speed, tumbleAngle>>
              ELSE
                 LET s == lerp(speed, targetSpeed(hoveredFaceRef), 5 * delta)
                     a == tumbleAngle + RoundDiv(s * delta, 1000)
                 IN  /\ pentVisible' = FALSE
                     /\ speed' = s
                     /\ tumbleAngle' = a
                     /\ groupRot' = <<"tumble", a>>
                     /\ edgeGroupVisible' = TRUE
                     /\ revealCount' = Len(sortedEdges)
                     /\ edgeMeshes' = FinalMeshes
                     /\ UNCHANGED pentScale
    /\ UNCHANGED <<geoVars, windowVars, panelVars, typeVars, mounted, clockLead, timerPending, showPanels,
                   hoveredFace, hoveredFaceRef>>

\* setTimeout(() => setShowPanels(true), PANEL_DELAY_MS) fires, d ms after
\* the previous event and no sooner than its delay.
PanelTimerFires(d) ==
    /\ mounted
    /\ timerPending
    /\ now + d >= PANEL_DELAY_MS
    /\ now + d <= MaxNow
    /\ now' = now + d
    /\ timerPending' = FALSE
    /\ showPanels' = TRUE
    /\ UNCHANGED <<geoVars, windowVars, panelVars, typeVars, mounted, clockLead, lastFrame, phase, groupRot, pentVisible,
                   pentScale, edgeGroupVisible, edgeMeshes, revealCount, speed,
                   tumbleAngle, hoveredFace, hoveredFaceRef>>

\* onHoverFace(face): face is a face's data or null.
onHoverFace(face) ==
    /\ hoveredFace' = face
    /\ hoveredFaceRef' = face

\* A variant in which a hover change also restarts the landing typewriter.
HoverChangeRestarts(face) ==
    /\ mounted
    /\ showPanels
    /\ onHoverFace(face)
    /\ revealedCount' = 0
    /\ UNCHANGED <<geoVars, windowVars, panelVars, mounted, clockLead, now, lastFrame,
                   timerPending, showPanels, phase, groupRot, pentVisible, pentScale,
                   edgeGroupVisible, edgeMeshes, revealCount, speed, tumbleAngle,
                   typeMounted, typeNow, startTimer, intervalActive, nextDue,
                   pendingUpdaters, ticks>>

\* Some panel's pointer handler or frame callback calls onHoverFace; the
\* panels exist once showPanels is true.
HoverChange(face) ==
    /\ mounted
    /\ showPanels
    /\ onHoverFace(face)
    /\ UNCHANGED <<geoVars, windowVars, panelVars, typeVars, mounted, clockLead, now, lastFrame,
                   timerPending, showPanels, phase, groupRot, pentVisible, pentScale,
                   edgeGroupVisible, edgeMeshes, revealCount, speed, tumbleAngle>>

\* The cleanup of the panel effect: clearTimeout(timer).
Unmount ==
    /\ mounted
    /\ mounted' = FALSE
    /\ timerPending' = FALSE
    /\ UNCHANGED <<geoVars, windowVars, panelVars, typeVars, clockLead, now, lastFrame, showPanels, phase, groupRot,
                   pentVisible, pentScale, edgeGroupVisible, edgeMeshes, revealCount,
                   speed, tumbleAngle, hoveredFace, hoveredFaceRef>>

Panels == 1..NumPanels
PanelFaces == {faces[k].data : k \in Panels}

AnimNext ==
    \/ \E d \in Deltas : Frame(d)
    \/ \E d \in TimerLate : PanelTimerFires(d)
    \/ \E f \in PanelFaces \cup {NoFace} : HoverChange(f)
    \/ Unmount

----------------------------------------------------------------------------
(* FacePanel: one per face, rendered once showPanels is true *)

\* worldNormal.dot(cameraDir), in thousandths: either side of the -0.05
\* threshold, at it, and far from it.
Dots == {-1000, -51, -50, -49, 1000}

\* Every panel as its first render leaves it: isFacingFront true, the inline
\* style with pointerEvents "auto" and no opacity (shown), no frame yet.
PanelIdle ==
    /\ isFacingFront = [f \in Panels |-> TRUE]
    /\ pendingFacing = [f \in Panels |-> <<>>]
    /\ opacity = [f \in Panels |-> 1]
    /\ pointerEvents = [f \in Panels |-> "auto"]
    /\ lastDot = [f \in Panels |-> <<>>]

\* The Dodecahedron at 7 s, its panel timer fired: the frames at 3.5 s and
\* 7 s have run and the panels have been rendered.
AnimShown ==
    /\ mounted = TRUE
    /\ clockLead = 0
    /\ now = PANEL_DELAY_MS
    /\ lastFrame = PANEL_DELAY_MS
    /\ timerPending = FALSE
    /\ showPanels = TRUE
    /\ phase = "tumble"
    /\ groupRot = <<"tumble", RoundDiv(ROTATE_SPEED * 3500, 1000)>>
    /\ pentVisible = FALSE
    /\ pentScale = 1000
    /\ edgeGroupVisible = TRUE
    /\ edgeMeshes = [i \in 1..Len(MemoSortedEdges) |-> [visible |-> TRUE, prog |-> ProgressOne]]
    /\ revealCount = Len(MemoSortedEdges)
    /\ speed = ROTATE_SPEED
    /\ tumbleAngle = RoundDiv(ROTATE_SPEED * 3500, 1000)
    /\ hoveredFace = NoFace
    /\ hoveredFaceRef = NoFace

\* const isFacing = worldNormal.dot(cameraDir) > -0.05
isFacing(dot) == dot > -50

\* useFrame(({ camera }) => ...) of panel f, the dot product being dot.  The
\* comparison reads the isFacingFront of the last render.
PanelFrame(f, dot) ==
    /\ mounted
    /\ showPanels
    /\ lastDot' = [lastDot EXCEPT ![f] = <<dot>>]
    /\ IF isFacingFront[f] # isFacing(dot)
       THEN /\ pendingFacing' = [pendingFacing EXCEPT ![f] = <<isFacing(dot)>>]
            /\ opacity' = [opacity EXCEPT ![f] = IF isFacing(dot) THEN 1 ELSE 0]
            /\ pointerEvents' = [pointerEvents EXCEPT
                                   ![f] = IF isFacing(dot) THEN "auto" ELSE "none"]
            /\ IF ~isFacing(dot)
               THEN onHoverFace(NoFace)
               ELSE UNCHANGED <<hoveredFace, hoveredFaceRef>>
       ELSE UNCHANGED <<pendingFacing, opacity, pointerEvents, hoveredFace, hoveredFaceRef>>
    /\ UNCHANGED <<geoVars, windowVars, typeVars, isFacingFront, mounted, clockLead, now, lastFrame,
                   timerPending, showPanels, phase, groupRot, pentVisible, pentScale,
                   edgeGroupVisible, edgeMeshes, revealCount, speed, tumbleAngle>>

\* React renders panel f with the state setIsFacingFront queued; the style
\* prop has not changed, so the inline style the frame callback wrote stays.
RenderPanel(f) ==
    /\ mounted
    /\ showPanels
    /\ pendingFacing[f] # <<>>
    /\ isFacingFront' = [isFacingFront EXCEPT ![f] = pendingFacing[f][1]]
    /\ pendingFacing' = [pendingFacing EXCEPT ![f] = <<>>]
    /\ UNCHANGED <<geoVars, windowVars, animVars, typeVars, opacity, pointerEvents, lastDot>>

\* onMouseEnter: () => { if (isFacingFront) onHoverFace(face.data); }
\* The browser delivers no pointer event to an element with pointer-events
\* "none".
MouseEnter(f) ==
    /\ mounted
    /\ showPanels
    /\ pointerEvents[f] = "auto"
    /\ IF isFacingFront[f]
       THEN onHoverFace(faces[f].data)
       ELSE UNCHANGED <<hoveredFace, hoveredFaceRef>>
    /\ UNCHANGED <<geoVars, windowVars, panelVars, typeVars, mounted, clockLead, now, lastFrame,
                   timerPending, showPanels, phase, groupRot, pentVisible, pentScale,
                   edgeGroupVisible, edgeMeshes, revealCount, speed, tumbleAngle>>

\* onMouseLeave: () => { if (isFacingFront) onHoverFace(null); }
\* The pointer can leave a panel whose pointer events have been switched off
\* since it entered.
MouseLeave(f) ==
    /\ mounted
    /\ showPanels
    /\ IF isFacingFront[f]
       THEN onHoverFace(NoFace)
       ELSE UNCHANGED <<hoveredFace, hoveredFaceRef>>
    /\ UNCHANGED <<geoVars, windowVars, panelVars, typeVars, mounted, clockLead, now, lastFrame,
                   timerPending, showPanels, phase, groupRot, pentVisible, pentScale,
                   edgeGroupVisible, edgeMeshes, revealCount, speed, tumbleAngle>>

PanelNext ==
    \/ \E f \in Panels, dot \in Dots : PanelFrame(f, dot)
    \/ \E f \in Panels : RenderPanel(f)
    \/ \E f \in Panels : MouseEnter(f)
    \/ \E f \in Panels : MouseLeave(f)

----------------------------------------------------------------------------
(* The landing page's TerminalText: a typewriter over TERMINAL_LINES *)

TERMINAL_LINES ==
    << "> portfolio",
       "",
       "Simon",
       "Shenghua Jin",
       "",
       "Mechatronics engineer and software",
       "developer with a passion for robotics,",
       "machine learning, and building things",
       "that bridge the digital-physical divide.",
       "",
       "Currently studying at SFU, winning",
       "hackathons, and pushing the boundaries",
       "of what hardware and software can do",
       "together." >>

\* buildCharMap(): one entry per character, line by line (0-based indices).
RECURSIVE buildCharMapFrom(_, _)
buildCharMapFrom(l, chars) ==
    IF l > Len(TERMINAL_LINES) THEN chars
    ELSE LET next == chars \o [c \in 1..Len(TERMINAL_LINES[l]) |->
                                  [line |-> l - 1, char |-> c - 1]]
         IN  IF Len(next) >= 0 THEN buildCharMapFrom(l + 1, next) ELSE chars

CHAR_MAP == buildCharMapFrom(1, <<>>)
CHAR_SPEED_MS == 20
FIRST_LINE_DELAY == 2000

\* Where the model stops telling the time: later events are all "at or
\* after" this instant.
TypeHorizon == 2100
\* How many interval callbacks can run before React renders.
MaxPending == 2

\* A variant of the updater without its end test.
unboundedUpdater(prev) == [count |-> prev + 1, clear |-> FALSE]

\* The updater handed to setRevealedCount: the count it returns and whether
\* it cleared the interval.
revealUpdater(prev) ==
    IF prev >= Len(CHAR_MAP) THEN [count |-> prev, clear |-> TRUE]
    ELSE [count |-> prev + 1, clear |-> FALSE]

\* React applies the k queued updaters in order.
RECURSIVE ApplyUpdaters(_, _, _)
ApplyUpdaters(prev, cleared, k) ==
    IF k = 0 THEN [count |-> prev, clear |-> cleared]
    ELSE LET r == revealUpdater(prev)
         IN  ApplyUpdaters(r.count, cleared \/ r.clear, k - 1)

\* The render of TerminalText with revealedCount = rc.
\* revealedPerLine: how many of the first rc entries of CHAR_MAP lie on each
\* line (lines are numbered from 1 here, from 0 in CHAR_MAP).
revealedPerLine(rc) ==
    [l \in 1..Len(TERMINAL_LINES) |->
        Cardinality({i \in 1..Min(rc, Len(CHAR_MAP)) : CHAR_MAP[i].line = l - 1})]

\* A variant that takes the line of the last revealed character.
lastTypedLine(rc) ==
    IF rc < Len(CHAR_MAP)
    THEN (IF rc = 0 THEN 0 ELSE CHAR_MAP[rc].line)
    ELSE -1

\* currentLine = revealedCount < CHAR_MAP.length ? CHAR_MAP[revealedCount].line : -1
currentLine(rc) ==
    IF rc < Len(CHAR_MAP) THEN CHAR_MAP[rc + 1].line ELSE -1

allDone(rc) == rc >= Len(CHAR_MAP)

\* The length of line.text.slice(0, revealedPerLine[i]) for line l.
shownLen(rc, l) == Min(revealedPerLine(rc)[l], Len(TERMINAL_LINES[l]))

\* Line l is rendered with the cursor span: spacers return before it.
hasCursor(rc, l) ==
    /\ TERMINAL_LINES[l] # ""
    /\ l - 1 = currentLine(rc)
    /\ ~allDone(rc)

TypeIdle ==
    /\ typeMounted = FALSE
    /\ typeNow = 0
    /\ startTimer = FALSE
    /\ intervalActive = FALSE
    /\ nextDue = 0
    /\ revealedCount = 0
    /\ pendingUpdaters = 0
    /\ ticks = 0

\* After the first render and the mount effect: the start timer is armed.
TypeInit ==
    /\ typeMounted = TRUE
    /\ typeNow = 0
    /\ startTimer = TRUE
    /\ intervalActive = FALSE
    /\ nextDue = 0
    /\ revealedCount = 0
    /\ pendingUpdaters = 0
    /\ ticks = 0

\* Time passes, up to the horizon.
TypeAdvance ==
    /\ typeMounted
    /\ typeNow < TypeHorizon
    /\ typeNow' = Min(typeNow + CHAR_SPEED_MS, TypeHorizon)
    /\ UNCHANGED <<geoVars, windowVars, animVars, panelVars, typeMounted, startTimer, intervalActive,
                   nextDue, revealedCount, pendingUpdaters, ticks>>

\* The callback of setTimeout(..., FIRST_LINE_DELAY): it starts the interval.
StartTimerFires ==
    /\ typeMounted
    /\ startTimer
    /\ typeNow >= FIRST_LINE_DELAY
    /\ startTimer' = FALSE
    /\ intervalActive' = TRUE
    /\ nextDue' = Min(typeNow + CHAR_SPEED_MS, TypeHorizon)
    /\ UNCHANGED <<geoVars, windowVars, animVars, panelVars, typeMounted, typeNow, revealedCount,
                   pendingUpdaters, ticks>>

\* The callback of setInterval(..., CHAR_SPEED_MS): it queues the updater.
IntervalTick ==
    /\ typeMounted
    /\ intervalActive
    /\ typeNow >= nextDue
    /\ pendingUpdaters < MaxPending
    /\ pendingUpdaters' = pendingUpdaters + 1
    /\ ticks' = ticks + 1
    /\ nextDue' = Min(typeNow + CHAR_SPEED_MS, TypeHorizon)
    /\ UNCHANGED <<geoVars, windowVars, animVars, panelVars, typeMounted, typeNow, startTimer,
                   intervalActive, revealedCount>>

\* React runs the queued updaters and renders.
RenderType ==
    /\ typeMounted
    /\ pendingUpdaters > 0
    /\ LET r == ApplyUpdaters(revealedCount, FALSE, pendingUpdaters)
       IN  /\ revealedCount' = r.count
           /\ intervalActive' = (intervalActive /\ ~r.clear)
    /\ pendingUpdaters' = 0
    /\ UNCHANGED <<geoVars, windowVars, animVars, panelVars, typeMounted, typeNow, startTimer,
                   nextDue, ticks>>

\* The cleanup of the effect: clearTimeout(startTimer) and clearInterval.
TypeUnmount ==
    /\ typeMounted
    /\ typeMounted' = FALSE
    /\ startTimer' = FALSE
    /\ intervalActive' = FALSE
    /\ pendingUpdaters' = 0
    /\ UNCHANGED <<geoVars, windowVars, animVars, panelVars, typeNow, nextDue, revealedCount, ticks>>

TypeNext ==
    \/ TypeAdvance
    \/ StartTimerFires
    \/ IntervalTick
    \/ RenderType
    \/ TypeUnmount

\* The event loop runs due timers, React renders queued updates, time passes.
TypeFairness ==
    /\ WF_vars(TypeAdvance)
    /\ WF_vars(StartTimerFires)
    /\ WF_vars(IntervalTick)
    /\ WF_vars(RenderType)

----------------------------------------------------------------------------
(* ProjectDetailsWindow and its TerminalText (the hover window) *)

\* How many leading characters of a description the model keeps.
MaxTextLen == 3

\* The first characters of each FACE_DEFINITIONS entry's description.
DescriptionHeads ==
    << <<"S", "i", "m", "o">>, <<"C", "o", "n", "n">>, <<"1", "s", "t", " ">>,
       <<"D", "e", "v", "e">>, <<"E", "n", "g", "i">>, <<"S", "e", "r", "v">>,
       <<"S", "o", "f", "t">>, <<"C", "r", "e", "a">>, <<"A", " ", "t", "e">>,
       <<"C", "o", "n", "d">>, <<"C", "o", "m", "p">>, <<"R", "e", "c", "i">> >>

\* activeFace.description, cut to MaxTextLen characters.
description(face) ==
    SubSeq(DescriptionHeads[face], 1, Min(MaxTextLen, Len(DescriptionHeads[face])))

\* text[i] for the 0-based i; past the end JavaScript yields undefined, which
\* the string concatenation turns into the text "undefined".
CharAt(text, i) == IF i < Len(text) THEN text[i + 1] ELSE "undefined"

\* React runs k queued updaters "prev => prev + text[i]"; each reads the i
\* of the effect's closure as it is when the updater runs.
RECURSIVE runQueued(_, _, _, _)
runQueued(prev, text, i, k) ==
    IF k = 0 THEN prev
    ELSE runQueued(Append(prev, CharAt(text, i)), text, i, k - 1)

\* Before any face was hovered: the window renders null.
WindowIdle ==
    /\ winFace = NoFace
    /\ activeFace = NoFace
    /\ prevFace = NoFace
    /\ winOpacity = 0
    /\ winShown = FALSE
    /\ lastFaceReceived = NoFace
    /\ htText = <<>>
    /\ displayedText = <<>>
    /\ htI = 0
    /\ htInterval = FALSE
    /\ htPending = 0

\* A variant of the window's render that copies the face prop into activeFace
\* even when it is null.
RenderWindowResets ==
    /\ mounted
    /\ showPanels
    /\ winFace' = hoveredFace
    /\ prevFace' = hoveredFace
    /\ activeFace' = IF hoveredFace # prevFace THEN hoveredFace ELSE activeFace
    /\ lastFaceReceived' = IF hoveredFace # NoFace THEN hoveredFace ELSE lastFaceReceived
    /\ winOpacity' = IF hoveredFace # NoFace THEN 1 ELSE 0
    /\ winShown' = (activeFace' # NoFace)
    /\ IF activeFace' # NoFace /\ (~winShown \/ description(activeFace') # htText)
       THEN /\ htText' = description(activeFace')
            /\ displayedText' = <<>>
            /\ htI' = 0
            /\ htInterval' = TRUE
            /\ htPending' = 0
       ELSE UNCHANGED <<htText, displayedText, htI, htInterval, htPending>>
    /\ UNCHANGED <<geoVars, animVars, panelVars, typeVars>>

\* The Dodecahedron renders and so does the window, its face prop being the
\* hoveredFace of that render: when the prop differs from prevFace, prevFace
\* follows it and activeFace follows it unless it is null.  lastFaceReceived
\* records the last non-null prop the window was rendered with.  When the
\* description changes (or TerminalText mounts) the effect of TerminalText
\* runs again: it clears the old interval, empties the text and starts a new
\* interval with i = 0.
RenderWindow ==
    /\ mounted
    /\ showPanels
    /\ winFace' = hoveredFace
    /\ prevFace' = hoveredFace
    /\ activeFace' = IF hoveredFace # prevFace /\ hoveredFace # NoFace
                   THEN hoveredFace ELSE activeFace
    /\ lastFaceReceived' = IF hoveredFace # NoFace THEN hoveredFace ELSE lastFaceReceived
    /\ winOpacity' = IF hoveredFace # NoFace THEN 1 ELSE 0
    /\ winShown' = (activeFace' # NoFace)
    /\ IF activeFace' # NoFace /\ (~winShown \/ description(activeFace') # htText)
       THEN /\ htText' = description(activeFace')
            /\ displayedText' = <<>>
            /\ htI' = 0
            /\ htInterval' = TRUE
            /\ htPending' = 0
       ELSE UNCHANGED <<htText, displayedText, htI, htInterval, htPending>>
    /\ UNCHANGED <<geoVars, animVars, panelVars, typeVars>>

\* The interval's callback with i < text.length, the component having no
\* update pending: React runs the updater at once, before i++.
HoverTickEager ==
    /\ htInterval
    /\ htI < Len(htText)
    /\ htPending = 0
    /\ displayedText' = Append(displayedText, CharAt(htText, htI))
    /\ htI' = htI + 1
    /\ UNCHANGED <<geoVars, animVars, panelVars, typeVars, winFace, activeFace, prevFace,
                   winOpacity, winShown, lastFaceReceived, htText, htInterval, htPending>>

\* The interval's callback with i < text.length: the updater is queued for
\* the next render, and i++ runs before it.
HoverTickQueued ==
    /\ htInterval
    /\ htI < Len(htText)
    /\ htPending < MaxPending
    /\ htPending' = htPending + 1
    /\ htI' = htI + 1
    /\ UNCHANGED <<geoVars, animVars, panelVars, typeVars, winFace, activeFace, prevFace,
                   winOpacity, winShown, lastFaceReceived, htText, displayedText,
                   htInterval>>

\* The interval's callback with i >= text.length: clearInterval(interval).
HoverTickStop ==
    /\ htInterval
    /\ htI >= Len(htText)
    /\ htInterval' = FALSE
    /\ UNCHANGED <<geoVars, animVars, panelVars, typeVars, winFace, activeFace, prevFace,
                   winOpacity, winShown, lastFaceReceived, htText, displayedText, htI,
                   htPending>>

\* React renders TerminalText and runs the queued updaters.
HoverTextRender ==
    /\ htPending > 0
    /\ displayedText' = runQueued(displayedText, htText, htI, htPending)
    /\ htPending' = 0
    /\ UNCHANGED <<geoVars, animVars, panelVars, typeVars, winFace, activeFace, prevFace,
                   winOpacity, winShown, lastFaceReceived, htText, htI, htInterval>>

WindowNext ==
    \/ \E f \in PanelFaces \cup {NoFace} : HoverChange(f)
    \/ RenderWindow
    \/ HoverTickEager
    \/ HoverTickQueued
    \/ HoverTickStop
    \/ HoverTextRender

----------------------------------------------------------------------------
(* Specifications *)

InitGeo == GeoInit /\ AnimIdle /\ PanelIdle /\ TypeIdle /\ WindowIdle
InitAnim == GeoMemo /\ AnimInit /\ PanelIdle /\ TypeIdle /\ WindowIdle
InitPanel == GeoMemo /\ AnimShown /\ PanelIdle /\ TypeIdle /\ WindowIdle
InitType == GeoMemo /\ AnimInit /\ PanelIdle /\ TypeInit /\ WindowIdle

SpecGeo == InitGeo /\ [][GeoNext]_vars
SpecAnim == InitAnim /\ [][AnimNext]_vars
SpecPanel == InitPanel /\ [][PanelNext]_vars
SpecType == InitType /\ [][TypeNext]_vars
SpecTypeFair == InitType /\ [][TypeNext]_vars /\ TypeFairness
SpecWindow == InitPanel /\ [][WindowNext]_vars

\* The landing page: the scene and the typewriter side by side, the scene
\* with its longest frame interval only.
PageNext ==
    \/ \E d \in Deltas : d >= Ms(EDGE_DRAW_END) \div 2 /\ Frame(d)
    \/ \E d \in TimerLate : PanelTimerFires(d)
    \/ \E f \in PanelFaces \cup {NoFace} : HoverChange(f)
    \/ TypeNext

SpecPage == InitType /\ [][PageNext]_vars

----------------------------------------------------------------------------
(* Properties of the geometry extraction *)

ExtractionOver == gpc \in {"returned", "done"}

\* C1: computeFaces, given the 36-triangle dodecahedron mesh with or without
\* an index, returns exactly 12 faces, each grouped from exactly 3 triangles
\* (9 corners) with exactly 5 unique vertices.
C1_TwelveFaces ==
    ExtractionOver =>
        /\ Len(faces) = 12
        /\ Len(groups) = 12
        /\ \A k \in 1..Len(groups) :
              /\ Len(groups[k].verts) = 3 * 3
              /\ Len(UniqueVerts(groups[k].verts)) = 5

\* The pairs of mesh corners that two different faces have in common: the
\* edges of the solid, found without EdgesGeometry.
FaceCorners(k) == {groups[k].verts[i] : i \in 1..Len(groups[k].verts)}
WireframeEdges ==
    LET corners == UNION {FaceCorners(k) : k \in 1..Len(groups)}
    IN  {{u, v} : u \in corners, v \in corners} \cap
        {e \in SUBSET corners :
            /\ Cardinality(e) = 2
            /\ \E j, k \in 1..Len(groups) :
                  j # k /\ e \subseteq FaceCorners(j) /\ e \subseteq FaceCorners(k)}

EdgePairs == {{sortedEdges[k].a, sortedEdges[k].b} : k \in 1..Len(sortedEdges)}

\* C4: extractSortedEdges returns each of the 30 wireframe edges exactly once,
\* each with sortY = -(the larger of its endpoints' z), in non-decreasing
\* order of sortY.
C4_SortedEdges ==
    gpc = "done" =>
        /\ Len(sortedEdges) = 30
        /\ Cardinality(EdgePairs) = Len(sortedEdges)
        /\ EdgePairs = WireframeEdges
        /\ \A k \in 1..Len(sortedEdges) :
              sortedEdges[k].sortY = -Max(sortedEdges[k].a[3], sortedEdges[k].b[3])
        /\ \A k \in 1..(Len(sortedEdges) - 1) :
              sortedEdges[k].sortY <= sortedEdges[k + 1].sortY

\* The edges have been extracted and span more than one height.
C4_Witness ==
    /\ gpc = "done"
    /\ Len(sortedEdges) = 30
    /\ \E k \in 1..(Len(sortedEdges) - 1) :
          sortedEdges[k].sortY < sortedEdges[k + 1].sortY

----------------------------------------------------------------------------
(* Properties of the animation timeline *)

\* clock.getElapsedTime() at the last frame, in ms.
LastElapsed == lastFrame + clockLead
Framed == phase # "none"
PhaseRank(ph) ==
    CASE ph = "none" -> 0 [] ph = "spin" -> 1 [] ph = "tilt" -> 2
      [] ph = "construct" -> 3 [] ph = "tumble" -> 4

\* The least n with n * den >= num (num >= 0, den > 0).
CeilDiv(num, den) == CHOOSE n \in 0..(num \div den + 1) : n * den >= num /\ (n - 1) * den < num

\* C2: over frames of non-decreasing elapsed time the number of revealed
\* edges never decreases; it is 0 while elapsed < TILT_END, it is
\* ceil(ease * total) with ease = 1 - (1 - p)^2 and within 0..total during the
\* construct phase, and it is total once elapsed >= EDGE_DRAW_END.
C2_RevealMonotonic ==
    /\ [][revealCount' >= revealCount]_vars
    /\ [](LET total == Len(sortedEdges)
              e == LastElapsed - Ms(TILT_END)
              span == Ms(EDGE_DRAW_END - TILT_END)
          IN  /\ (~Framed \/ LastElapsed < Ms(TILT_END)) => revealCount = 0
              /\ (Framed /\ LastElapsed >= Ms(TILT_END) /\ LastElapsed < Ms(EDGE_DRAW_END)) =>
                    /\ revealCount = CeilDiv(total * (span * span - (span - e) * (span - e)),
                                             span * span)
                    /\ revealCount \in 0..total
              /\ (Framed /\ LastElapsed >= Ms(EDGE_DRAW_END)) => revealCount = total)

\* A construct frame that has drawn some of the edges but not all.
C2_Witness ==
    /\ phase = "construct"
    /\ revealCount > 0
    /\ revealCount < Len(sortedEdges)

\* C3: the phase of a frame is a function of its elapsed time alone (spin
\* below 2 s, tilt from 2 s and below 4 s, construct from 4 s and below 7 s,
\* tumble from 7 s on); the phases follow one another in that order and no
\* frame returns to an earlier one, so every frame after a tumble frame is a
\* tumble frame.
C3_PhaseOrder ==
    /\ [](Framed =>
            phase = IF LastElapsed < 2 * 1000 THEN "spin"
                    ELSE IF LastElapsed < 4 * 1000 THEN "tilt"
                    ELSE IF LastElapsed < 7 * 1000 THEN "construct"
                    ELSE "tumble")
    /\ [][PhaseRank(phase') >= PhaseRank(phase)]_vars
    /\ [][phase = "tumble" => phase' = "tumble"]_vars

\* A second tumble frame: the tumble has been entered and kept.
C3_Witness ==
    /\ phase = "tumble"
    /\ LastElapsed > Ms(EDGE_DRAW_END)
    /\ tumbleAngle > RoundDiv(ROTATE_SPEED, 10)

\* C5: after every construct frame the visible edge meshes are a prefix of
\* the sorted edges, and every edge at index >= revealCount (0-based) is
\* hidden.
C5_VisiblePrefix ==
    phase = "construct" =>
        /\ \A k \in 1..Len(edgeMeshes) :
              edgeMeshes[k].visible => \A j \in 1..(k - 1) : edgeMeshes[j].visible
        /\ \A k \in 1..Len(edgeMeshes) :
              k - 1 >= revealCount => ~edgeMeshes[k].visible

\* A construct frame with visible edges and with an edge that is inside the
\* reveal count but still too short to be shown.
C5_Witness ==
    /\ phase = "construct"
    /\ edgeMeshes[1].visible
    /\ \E k \in 1..Len(edgeMeshes) : k - 1 < revealCount /\ ~edgeMeshes[k].visible

\* A step of the frame callback that took the tumble branch.
TumbleFrameStep == lastFrame' # lastFrame /\ phase' = "tumble"

\* C6: on every tumble frame the speed moves toward its target, which is
\* 0.15 * ROTATE_SPEED (slower) while a face is hovered and ROTATE_SPEED while
\* none is: the frame never leaves the speed farther from the target than it
\* found it.
C6_SpeedTowardTarget ==
    [][TumbleFrameStep =>
         /\ targetSpeed(hoveredFaceRef) =
               (IF hoveredFaceRef # NoFace THEN RoundDiv(15 * ROTATE_SPEED, 100) ELSE ROTATE_SPEED)
         /\ Abs(speed' - targetSpeed(hoveredFaceRef)) <= Abs(speed - targetSpeed(hoveredFaceRef))]_vars

\* C7: tumbleAngle is 0 and speed is ROTATE_SPEED as long as every frame so
\* far had elapsed < EDGE_DRAW_END; spin, tilt and construct frames leave both
\* unchanged, and tumbleAngle changes only on frames with
\* elapsed >= EDGE_DRAW_END.
C7_TumbleAfterConstruct ==
    /\ []((~Framed \/ LastElapsed < Ms(EDGE_DRAW_END)) =>
             tumbleAngle = 0 /\ speed = ROTATE_SPEED)
    /\ [][(lastFrame' # lastFrame /\ lastFrame' + clockLead < Ms(EDGE_DRAW_END)) =>
             tumbleAngle' = tumbleAngle /\ speed' = speed]_vars
    /\ [][tumbleAngle' # tumbleAngle =>
             lastFrame' # lastFrame /\ lastFrame' + clockLead >= Ms(EDGE_DRAW_END)]_vars

\* The last edges are being drawn and the solid has not begun to tumble.
C7_Witness ==
    /\ phase = "construct"
    /\ revealCount = Len(sortedEdges)
    /\ tumbleAngle = 0
    /\ speed = ROTATE_SPEED

----------------------------------------------------------------------------
(* Properties of the face panels *)

\* C9: after every frame callback of a FacePanel the panel has opacity 1 and
\* pointer events enabled if and only if the dot product of its normal with
\* the direction to the camera was > -0.05 at that frame; otherwise it has
\* opacity 0 and pointer events disabled.
C9_FacingStyle ==
    \A f \in Panels :
        lastDot[f] # <<>> =>
            IF lastDot[f][1] > -50
            THEN opacity[f] = 1 /\ pointerEvents[f] = "auto"
            ELSE opacity[f] = 0 /\ pointerEvents[f] = "none"

----------------------------------------------------------------------------
(* Properties of the landing page's typewriter *)

\* C10: revealedCount is 0 until FIRST_LINE_DELAY has elapsed; from then on it
\* has grown by exactly 1 for each interval tick React has applied, it never
\* exceeds CHAR_MAP.length, it eventually equals CHAR_MAP.length (as long as
\* the component stays mounted), and after that the interval is cleared and
\* the count no longer changes.
C10_Typewriter ==
    /\ [](typeNow < 2 * 1000 => revealedCount = 0 /\ ticks = 0)
    /\ [](typeMounted => revealedCount = Min(Len(CHAR_MAP), ticks - pendingUpdaters))
    /\ [](revealedCount <= Len(CHAR_MAP))
    /\ <>(~typeMounted \/ revealedCount = Len(CHAR_MAP))
    /\ [](revealedCount = Len(CHAR_MAP) => <>(~intervalActive))
    /\ [][revealedCount = Len(CHAR_MAP) => revealedCount' = revealedCount]_vars
    /\ [][(~intervalActive /\ ~startTimer /\ pendingUpdaters = 0) =>
             revealedCount' = revealedCount /\ ~intervalActive']_vars

\* Every character is revealed, one more tick has run and its updater has
\* cleared the interval.
C10_Witness ==
    /\ typeMounted
    /\ revealedCount = Len(CHAR_MAP)
    /\ ticks > Len(CHAR_MAP)
    /\ ~intervalActive
    /\ pendingUpdaters = 0

----------------------------------------------------------------------------
(* Properties of the hover window *)

IsPrefix(d, t) == Len(d) <= Len(t) /\ \A k \in 1..Len(d) : d[k] = t[k]

\* C11: after any number of 30 ms ticks and updater executions the hover
\* window's displayedText is a prefix of the current text prop (no skipped,
\* duplicated or extra characters), also after the text prop has changed and
\* the reveal has restarted from the empty string.
C11_DisplayedPrefix ==
    winShown => IsPrefix(displayedText, htText)

----------------------------------------------------------------------------
(* Properties of the landing page as a whole *)

SceneStep == animVars' # animVars \/ panelVars' # panelVars \/ windowVars' # windowVars
TypewriterStep == typeVars' # typeVars

\* C12: frame callbacks, the panel timer and hover events leave the
\* typewriter's state unchanged; typewriter steps leave the phase, the tumble
\* angle and speed, the hover state and showPanels unchanged; and whatever
\* the frames and hover events, the revealed count is the same function of
\* the ticks that have run.
C12_Independent ==
    /\ [][SceneStep => UNCHANGED typeVars]_vars
    /\ [][TypewriterStep =>
            UNCHANGED <<phase, tumbleAngle, speed, hoveredFace, hoveredFaceRef,
                        showPanels>>]_vars
    /\ [](typeMounted => revealedCount = Min(Len(CHAR_MAP), ticks - pendingUpdaters))

\* The typewriter is in mid-text while the solid tumbles with a face hovered.
C12_Witness ==
    /\ revealedCount > 0
    /\ revealedCount < Len(CHAR_MAP)
    /\ phase = "tumble"
    /\ tumbleAngle > 0
    /\ hoveredFace # NoFace

----------------------------------------------------------------------------
(* Properties of the face cards *)

\* C13: every FACE_DEFINITIONS entry renders a FaceCard whose link is
\* /projects/<slug> with the entry's own slug and whose accent is the entry's
\* accent, for every entry and for every face the extraction matched to one;
\* the 12 slugs are pairwise distinct.
C13_CardLinks ==
    /\ Len(FACE_DEFINITIONS) = 12
    /\ \A k \in 1..Len(FACE_DEFINITIONS) :
          /\ renderContent(k).href = <<"projects", FACE_DEFINITIONS[k].slug>>
          /\ renderContent(k).accent = FACE_DEFINITIONS[k].accent
    /\ \A j, k \in 1..Len(FACE_DEFINITIONS) :
          j # k => FACE_DEFINITIONS[j].slug # FACE_DEFINITIONS[k].slug
    /\ (variant = "current" /\ ExtractionOver) =>
          \A f \in 1..Len(faces) :
              renderContent(faces[f].data).href
                  = <<"projects", FACE_DEFINITIONS[faces[f].data].slug>>

\* The current component has matched its 12 faces, so 12 cards are rendered.
C13_Witness ==
    /\ variant = "current"
    /\ gpc = "done"
    /\ Len(faces) = 12
    /\ \A f \in 1..Len(faces) : Len(renderContent(faces[f].data).href) = 2

AssignedDefs == {faces[f].data : f \in 1..Len(faces)}
MatchInjective == \A f, g \in 1..Len(faces) : f # g => faces[f].data # faces[g].data
FacesComputed == ExtractionOver /\ Len(faces) > 0

----------------------------------------------------------------------------
(* Properties of the end of the construction *)

\* edgeProgress of every edge in the limit of the construct phase, where
\* ease is 1.
DrawnInTheLimit ==
    \A i \in 0..(Len(sortedEdges) - 1) :
        edgeProgress(Ms(EDGE_DRAW_END), Len(sortedEdges), i) = ProgressOne

\* C15: the edges are fully drawn by EDGE_DRAW_END: as ease reaches 1 every
\* edge has edgeProgress 1, so the frame that switches from the construct
\* phase to the tumble changes no edge's drawn extent (beyond what the
\* length of the last frame interval accounts for).
C15_FullyDrawn ==
    [][(phase = "construct" /\ phase' = "tumble") =>
          (edgeMeshes' = edgeMeshes \/ DrawnInTheLimit)]_vars

----------------------------------------------------------------------------
(* Properties of the hover state *)

\* The frame callback of panel f has just switched the panel from shown to
\* hidden.
TurnsAway(f) == opacity[f] = 1 /\ opacity'[f] = 0

\* C16: a frame callback clears the hover exactly when the panel that turns
\* away from the camera is the hovered one: when a panel that is not the
\* hovered one turns away, hoveredFace and the speed target read from
\* hoveredFaceRef stay as they were.
C16_ClearOnlyHovered ==
    [][\A f \in Panels :
          (TurnsAway(f) /\ hoveredFace # faces[f].data) =>
              (hoveredFace' = hoveredFace /\ hoveredFaceRef' = hoveredFaceRef)]_vars

\* C17: hoveredFace is null or the face of a panel that was facing the
\* camera at its latest frame callback.
C17_HoverFrontFacing ==
    \A f \in Panels :
        (hoveredFace = faces[f].data /\ lastDot[f] # <<>>) => isFacing(lastDot[f][1])

----------------------------------------------------------------------------
(* Properties of the details window *)

\* C18: activeFace is the most recent non-null face the window received and
\* is never reset to null; the window has opacity 1 exactly when its current
\* face prop is non-null; and it renders nothing exactly while no face has
\* ever been received.
C18_KeepsLastFace ==
    /\ [](activeFace = lastFaceReceived)
    /\ [](winShown => (winOpacity = 1 <=> winFace # NoFace))
    /\ [](winShown <=> lastFaceReceived # NoFace)
    /\ [][activeFace # NoFace => activeFace' # NoFace]_vars

\* The window fades out with the face it showed last, a face other than the
\* first panel's.
C18_Witness ==
    /\ winShown
    /\ winFace = NoFace
    /\ winOpacity = 0
    /\ activeFace # NoFace
    /\ htText # <<>>
    /\ htText # description(faces[1].data)

----------------------------------------------------------------------------
(* Properties of the tumble speed *)

\* C19: the tumble speed stays within [0.15 * ROTATE_SPEED, ROTATE_SPEED]
\* after any sequence of tumble frames, whatever the frame deltas and the
\* hover changes; it is never negative, so tumbleAngle never decreases from
\* one frame to the next.
C19_SpeedInRange ==
    /\ [](speed >= HoveredSpeed /\ speed <= ROTATE_SPEED)
    /\ [][TumbleFrameStep => tumbleAngle' >= tumbleAngle]_vars

----------------------------------------------------------------------------
(* Properties of what each phase shows *)

\* C20: after every spin or tilt frame the pentagon is visible and the edge
\* group hidden; after every construct frame the edge group is visible and
\* the pentagon is visible exactly when ease < 0.2; after every tumble frame
\* the pentagon is hidden and the edge group visible with every edge shown
\* at its final endpoints, whichever phases the frames before it went through.
C20_PhaseVisibility ==
    /\ phase \in {"spin", "tilt"} => (pentVisible /\ ~edgeGroupVisible)
    /\ phase = "construct" =>
          /\ edgeGroupVisible
          /\ pentVisible <=> (10 * EaseNum(LastElapsed) < 2 * EaseDen)
    /\ phase = "tumble" =>
          /\ ~pentVisible
          /\ edgeGroupVisible
          /\ \A k \in 1..Len(sortedEdges) :
                edgeMeshes[k] = [visible |-> TRUE, prog |-> ProgressOne]

\* A tumble frame that came straight after a frame of the tilt phase: the
\* construct phase was skipped.
C20_Witness ==
    /\ phase = "tumble"
    /\ edgeGroupVisible
    /\ \E d \in Deltas :
          /\ d > Ms(EDGE_DRAW_END - TILT_END)
          /\ LastElapsed - d < Ms(TILT_END)
          /\ tumbleAngle = RoundDiv(ROTATE_SPEED * d, 1000)

----------------------------------------------------------------------------
(* Properties of edgeProgress *)

\* edgeProgress of the 0-based edge i at the latest frame.
ProgressNow(i) == edgeProgress(LastElapsed, Len(sortedEdges), i)

\* C21: on every construct frame every revealed edge i (i < revealCount) has
\* edgeProgress in (0, 1] and the progress does not increase with the edge
\* index; from one construct frame to the next the progress of an edge does
\* not decrease.
C21_ProgressBounds ==
    /\ [](phase = "construct" =>
            \A i \in 0..(revealCount - 1) :
                /\ ProgressNow(i) > 0
                /\ ProgressNow(i) <= ProgressOne
                /\ i + 1 < revealCount => ProgressNow(i) >= ProgressNow(i + 1))
    /\ [][(phase = "construct" /\ phase' = "construct") =>
            \A i \in 0..(revealCount - 1) : ProgressNow(i)' >= ProgressNow(i)]_vars

\* A construct frame with several edges revealed, the first one complete and
\* the last one still growing.
C21_Witness ==
    /\ phase = "construct"
    /\ revealCount > 3
    /\ ProgressNow(0) = ProgressOne
    /\ ProgressNow(revealCount - 1) < ProgressOne
    /\ ProgressNow(revealCount - 2) > ProgressNow(revealCount - 1)

----------------------------------------------------------------------------
(* Properties of the landing page's lines *)

FullyShown(l) == shownLen(revealedCount, l) = Len(TERMINAL_LINES[l])
CursorLines == {l \in 1..Len(TERMINAL_LINES) : hasCursor(revealedCount, l)}

\* C22: the lines are typed one after the other: a line shows characters
\* only if every earlier line is fully shown; what a line shows is a prefix
\* of its text, as long as the count of its revealed characters; while
\* characters remain, exactly one line carries the cursor, a non-spacer line,
\* the first one not fully shown; and the cursor is gone and the buttons are
\* there exactly when every character is revealed.
C22_SequentialLines ==
    typeMounted =>
        /\ \A l \in 1..Len(TERMINAL_LINES) :
              /\ revealedPerLine(revealedCount)[l] <= Len(TERMINAL_LINES[l])
              /\ shownLen(revealedCount, l) = revealedPerLine(revealedCount)[l]
              /\ shownLen(revealedCount, l) > 0 => \A k \in 1..(l - 1) : FullyShown(k)
        /\ revealedCount < Len(CHAR_MAP) =>
              /\ Cardinality(CursorLines) = 1
              /\ \A l \in CursorLines :
                    /\ TERMINAL_LINES[l] # ""
                    /\ ~FullyShown(l)
                    /\ \A k \in 1..(l - 1) : FullyShown(k)
        /\ (CursorLines = {}) <=> (revealedCount = Len(CHAR_MAP))
        /\ allDone(revealedCount) <=> (revealedCount = Len(CHAR_MAP))

\* The first line is complete and nothing of the next text line is shown
\* yet: the cursor has passed the spacer and stands on the third line.
C22_Witness ==
    /\ typeMounted
    /\ FullyShown(1)
    /\ TERMINAL_LINES[2] = ""
    /\ shownLen(revealedCount, 3) = 0
    /\ CursorLines = {3}


====
